---- MODULE Spec2Model ----
(***************************************************************************)
(* Model of the Azure settings page of the "Deploy Azure SQL DB" wizard    *)
(* (AzureSettingsPage, DeployAzureSQLDBWizard.getRequest), of the toolbar  *)
(* of the PostgreSQL overview page (PostgresOverviewPage) and of           *)
(* isNotebookContent.  Each has its own specification (Spec, SpecPostgres, *)
(* SpecNotebook); the variables of the others stay as they start.          *)
(*                                                                         *)
(* Every asynchronous handler is split at its awaits: the synchronous code *)
(* between two awaits is one atomic action (JavaScript runs it to          *)
(* completion), and a handler suspended at an await is a record of the bag *)
(* `tasks` holding the await it waits for and the arguments it captured.   *)
(*                                                                         *)
(* Strings that the code compares character by character (subscription     *)
(* names and ids) are sequences of character codes; a resource id is the   *)
(* sequence of its '/'-separated segments (the result of split('/'));      *)
(* other strings are TLA+ strings.  An optional value is <<>> (undefined)  *)
(* or <<v>>.                                                               *)
(***************************************************************************)
EXTENDS Naturals, Integers, Sequences, FiniteSets, Bags, TLC

VARIABLES
    initialized,            \* registerContent callback of initialize() has run
    started,                \* number of handlers the user has started with a click or a selection
    model,                  \* wizard.model (DeployAzureSQLDBWizardModel), the selection store
    accountsMap,            \* _accountsMap: set of <<displayName, account>>
    subscriptionsMap,       \* _subscriptionsMap: set of <<subscription id, subscription>>
    accountsDropdown,       \* _azureAccountsDropdown
    subscriptionsDropdown,  \* _azureSubscriptionsDropdown
    serverGroupDropdown,    \* _serverGroupDropdown
    loading,                \* loading property of the three LoadingComponents
    errorMessage,           \* message last passed to wizard.showErrorMessage
    liveValidation,         \* BasePage.liveValidation
    validator,              \* navigation validator registered with the wizard
    navOutcome,             \* outcome of the last navigation attempt under that validator
    tasks,                  \* bag of handlers suspended at an await
    latest,                 \* per field: the candidates produced by the latest-started reload among those that completed
    buttons,                \* PostgresOverviewPage: enabled property of the toolbar buttons
    loaders,                \* PostgresOverviewPage: loading property of propertiesLoading, kibanaLoading, grafanaLoading
    handlers,               \* PostgresOverviewPage: the await each button's click handler is suspended at
    refreshes,              \* the refresh() calls on _postgresModel and _controllerModel and the events they fired
    notifications,          \* messages shown with vscode.window.show*Message, oldest first
    documentContent,        \* isNotebookContent: its argument, a sequence of JSON tokens
    isNotebook              \* isNotebookContent: what the call returned

wizardVars == <<initialized, started, model, accountsMap, subscriptionsMap, accountsDropdown,
                subscriptionsDropdown, serverGroupDropdown, loading, errorMessage,
                liveValidation, validator, navOutcome, tasks, latest>>

postgresVars == <<buttons, loaders, handlers, refreshes, notifications>>

notebookVars == <<documentContent, isNotebook>>

vars == <<wizardVars, postgresVars, notebookVars>>

\* what the wizard page never touches
outsideWizard == <<postgresVars, notebookVars>>

\* ---------------------------------------------------------------- bounds
\* number of handlers that may be suspended at an await at the same time
MaxTasks == 2

\* number of reloads the user starts (Refresh, Sign In, account or subscription selection)
MaxStarted == 2

\* ---------------------------------------------------------------- optional values
None == <<>>
Some(v) == <<v>>
The(o) == o[1]

\* ---------------------------------------------------------------- strings
\* character codes of the strings that are sorted or concatenated
Str_Dev == <<68, 101, 118>>
Str_beta == <<98, 101, 116, 97>>
Str_dev == <<100, 101, 118>>
Str_S1 == <<83, 49>>
Str_S2 == <<83, 50>>
Str_S3 == <<83, 51>>
\* ' - '
Str_Dash == <<32, 45, 32>>

\* String.prototype.toLocaleLowerCase on the ASCII range
toLocaleLowerCase(s) ==
    [i \in 1..Len(s) |-> IF s[i] \in 65..90 THEN s[i] + 32 ELSE s[i]]

\* String.prototype.localeCompare on lower-cased ASCII letters and digits:
\* -1, 0 or 1, the first differing character decides, a proper prefix is smaller
RECURSIVE localeCompare(_, _)
localeCompare(a, b) ==
    IF a = <<>> /\ b = <<>> THEN 0
    ELSE IF a = <<>> THEN -1
    ELSE IF b = <<>> THEN 1
    ELSE IF Head(a) < Head(b) THEN -1
    ELSE IF Head(a) > Head(b) THEN 1
    ELSE localeCompare(Tail(a), Tail(b))

\* mutant of CompareSubscriptions: the names are compared as they are
CompareSubscriptions_CaseSensitive(a, b) == localeCompare(a.name, b.name)

\* the comparator of subscriptions.sort(...)
CompareSubscriptions(a, b) ==
    localeCompare(toLocaleLowerCase(a.name), toLocaleLowerCase(b.name))

\* Array.prototype.sort with that comparator: a stable sort
RECURSIVE InsertSorted(_, _)
InsertSorted(x, s) ==
    IF s = <<>> THEN <<x>>
    ELSE IF CompareSubscriptions(x, Head(s)) < 0 THEN <<x>> \o s
    ELSE <<Head(s)>> \o InsertSorted(x, Tail(s))

RECURSIVE SortSubscriptions(_)
SortSubscriptions(s) ==
    IF s = <<>> THEN <<>>
    ELSE InsertSorted(s[Len(s)], SortSubscriptions(SubSeq(s, 1, Len(s) - 1)))

\* ---------------------------------------------------------------- resource ids
\* first index i >= from with segs[i] = marker that is preceded and followed
\* by a '/', i.e. 2 <= i < Len(segs); 0 when the marker does not occur
RECURSIVE FindMarker(_, _, _)
FindMarker(segs, marker, from) ==
    IF from >= Len(segs) THEN 0
    ELSE IF from >= 2 /\ segs[from] = marker THEN from
    ELSE FindMarker(segs, marker, from + 1)

\* s.replace(RegExp('^(.*?)/resourceGroups/'), '')
StripToResourceGroups(segs) ==
    LET i == FindMarker(segs, "resourceGroups", 1)
    IN IF i = 0 THEN segs ELSE SubSeq(segs, i + 1, Len(segs))

\* s.replace(RegExp('/providers/.*'), '')
StripFromProviders(segs) ==
    LET j == FindMarker(segs, "providers", 1)
    IN IF j = 0 THEN segs ELSE SubSeq(segs, 1, j - 1)

\* mutant of ResourceGroupOf: the second replace is forgotten
ResourceGroupOf_KeepsProviders(id) == StripToResourceGroups(id)

\* the resource group the page derives from a server-field entry's name (the id)
ResourceGroupOf(id) == StripFromProviders(StripToResourceGroups(id))

\* ---------------------------------------------------------------- environment
Acc1 == [key |-> "A1", displayName |-> "user1"]
Acc2 == [key |-> "A2", displayName |-> "user2"]

\* the lists azdata.accounts.getAllAccounts() may resolve to
AccountLists == {<<>>, <<Acc1, Acc2>>, <<Acc2>>}

Sub1 == [id |-> Str_S1, name |-> Str_Dev, tenant |-> "T1"]
Sub2 == [id |-> Str_S2, name |-> Str_beta, tenant |-> "T2"]
Sub3 == [id |-> Str_S3, name |-> Str_dev, tenant |-> "T1"]

\* what getSubscriptions(account, true).subscriptions may resolve to
SubscriptionLists(account) ==
    IF account = Some(Acc1) THEN {None, Some(<<>>), Some(<<Sub1, Sub2>>)}
    ELSE IF account = Some(Acc2) THEN {Some(<<Sub3>>)}
    ELSE {None}

ServerId(sub, rg, name) ==
    <<"", "subscriptions", sub, "resourceGroups", rg, "providers", "Microsoft.Sql", "servers", name>>

Srv1 == [name |-> "srv1", id |-> ServerId("S1", "RG1", "srv1")]
Srv2 == [name |-> "srv2", id |-> ServerId("S1", "RG2", "srv2")]
Srv3 == [name |-> "srv3", id |-> ServerId("S3", "RG3", "srv3")]

\* the servers of a subscription, in the order the REST response lists them
ServersOf(sub) ==
    IF sub = Some(Str_S1) THEN <<Srv2, Srv1>>
    ELSE IF sub = Some(Str_S3) THEN <<Srv3>>
    ELSE <<>>

\* what axios.get resolves to for the server list of a subscription: the list,
\* or a non-2xx response whose body has no `value`
ServerResponses(sub) ==
    {[status |-> 200, value |-> Some(ServersOf(sub))], [status |-> 401, value |-> None]}

\* azdata.accounts.getAccountSecurityToken(account, tenant, resource)
SecurityToken(account, tenant) == Some([account |-> account, tenant |-> tenant])

\* ---------------------------------------------------------------- dropdowns
\* A DropDownComponent: its values and the index of its shown value
\* (0: no value).  Replacing the candidate list shows the first candidate.
updateProperties(values) ==
    [values |-> values, sel |-> IF values = <<>> THEN 0 ELSE 1]

addDropdownValues(values) == updateProperties(values)

\* DropDownComponent.value
Value(dd) == IF dd.sel = 0 THEN None ELSE Some(dd.values[dd.sel])

\* ---------------------------------------------------------------- tasks
\* A suspended handler: the await it waits for (pc), the arguments it captured,
\* and whether a newer reload of the same field has been started since (old)
NoTask == [pc |-> "", account |-> None, sub |-> None, tenant |-> None,
           token |-> None, old |-> FALSE]

Task(pc) == [NoTask EXCEPT !.pc = pc]

SubscriptionReloadPcs == {"getAzurecoreApi", "getSubscriptions", "getAccountSecurityToken"}
ServerReloadPcs == {"getRequest"}

Add(bag, t) == bag (+) SetToBag({t})
Remove(bag, t) == bag (-) SetToBag({t})

\* a reload of a field is started: the reloads of that field still in flight are superseded
MarkOld(bag, pcs) ==
    LET F(t) == IF t.pc \in pcs THEN [t EXCEPT !.old = TRUE] ELSE t
    IN BagOfAll(F, bag)

\* what the latest-started completed reload of a field has produced, after
\* the reload t writes `values`: a superseded reload does not count
Produced(t, before, values) == IF t.old THEN before ELSE values

Suspended(pc) == {t \in BagToSet(tasks) : t.pc = pc}

\* the user may start another handler
CanStart == initialized /\ BagCardinality(tasks) < MaxTasks /\ started < MaxStarted

\* ---------------------------------------------------------------- initial state
\* PostgresOverviewPage after its container and toolbar are built, the models
\* having been updated before or not
PostgresInit(registrationsLastUpdated, configLastUpdated, endpointsLastUpdated) ==
    /\ buttons = [resetPassword |-> TRUE, delete |-> TRUE, refresh |-> TRUE]
    /\ loaders = [properties |-> ~registrationsLastUpdated /\ ~configLastUpdated,
                  kibana |-> ~endpointsLastUpdated,
                  grafana |-> ~endpointsLastUpdated]
    /\ handlers = [resetPassword |-> "idle", delete |-> "idle", refresh |-> "idle"]
    /\ refreshes = [postgres |-> "none", controller |-> "none",
                    config |-> FALSE, endpoints |-> FALSE, registrations |-> FALSE]
    /\ notifications = <<>>

\* isNotebookContent before it is called with documentContent
NotebookInit(content) ==
    /\ documentContent = content
    /\ isNotebook = "none"

\* AzureSettingsPage after its constructor
WizardInit ==
    /\ initialized = FALSE
    /\ started = 0
    /\ model = [azureAccount |-> None, azureSubscription |-> None,
                azureSubscriptionDisplayName |-> None, securityToken |-> None,
                azureServerName |-> None, azureResouceGroup |-> None]
    /\ accountsMap = {}
    /\ subscriptionsMap = {}
    /\ accountsDropdown = [values |-> <<>>, sel |-> 0]
    /\ subscriptionsDropdown = [values |-> <<>>, sel |-> 0]
    /\ serverGroupDropdown = [values |-> <<>>, sel |-> 0]
    /\ loading = [accounts |-> FALSE, subscription |-> FALSE, serverGroup |-> FALSE]
    /\ errorMessage = ""
    /\ liveValidation = FALSE
    /\ validator = "none"
    /\ navOutcome = "none"
    /\ tasks = EmptyBag
    /\ latest = [subscription |-> <<>>, serverGroup |-> <<>>]

Init ==
    /\ WizardInit
    /\ PostgresInit(FALSE, FALSE, FALSE)
    /\ NotebookInit(<<>>)

\* ---------------------------------------------------------------- maps
\* Map.prototype.set
MapSet(m, k, v) == {e \in m : e[1] # k} \cup {<<k, v>>}

\* Map.prototype.get: undefined when the key is absent
MapGet(m, k) ==
    IF \E e \in m : e[1] = k THEN Some((CHOOSE e \in m : e[1] = k)[2]) ELSE None

\* map.set(k, v) for the <<k, v>> of a list, in order
RECURSIVE MapSetAll(_, _)
MapSetAll(m, entries) ==
    IF entries = <<>> THEN m
    ELSE MapSetAll(MapSet(m, Head(entries)[1], Head(entries)[2]), Tail(entries))

\* ---------------------------------------------------------------- category values
AccountCategoryValue(account) ==
    [displayName |-> account.displayName, name |-> account.displayName]

SubscriptionCategoryValue(subscription) ==
    [displayName |-> subscription.name \o Str_Dash \o subscription.id, name |-> subscription.id]

ServerCategoryValue(value) == [displayName |-> value.name, name |-> value.id]

\* mutant of NoServersValues: an empty server list empties the field
NoServersValues_Empty == <<>>

\* the single entry shown when the server list is empty
NoServersValues == <<[displayName |-> "No servers found", name |-> <<"">>]>>

\* the entry _accountsMap.set(accountCategoryValue.displayName, account) adds
AccountEntry(account) == <<AccountCategoryValue(account).displayName, account>>

\* the entry _subscriptionsMap.set(subscriptionCategoryValue.name, subscription) adds
SubscriptionEntry(subscription) == <<SubscriptionCategoryValue(subscription).name, subscription>>

\* ---------------------------------------------------------------- populateServerGroupDropdown
\* The synchronous part of populateServerGroupDropdown, up to its await of
\* getRequest, run with the other suspended handlers `rest`, the store `mdl`
\* and the subscription field `subDD`: the new bag of tasks, server field,
\* loading flag of the server loader and latest produced candidates of the server field.
populateServerGroupDropdown(rest, mdl, subDD) ==
    LET marked == MarkOld(rest, ServerReloadPcs)
        currentSubscriptionValue == Value(subDD)
    IN  IF currentSubscriptionValue = None \/ The(currentSubscriptionValue).displayName = <<>>
        THEN [tasks |-> marked,
              serverGroupDropdown |-> updateProperties(<<>>),
              serverLoading |-> FALSE,
              serverLatest |-> <<>>]
        ELSE IF mdl.securityToken = None
        THEN \* getRequest reads .token of undefined: the reload throws
             [tasks |-> marked,
              serverGroupDropdown |-> serverGroupDropdown,
              serverLoading |-> TRUE,
              serverLatest |-> latest.serverGroup]
        ELSE [tasks |-> Add(marked, [Task("getRequest") EXCEPT
                                        !.sub = mdl.azureSubscription,
                                        !.token = mdl.securityToken]),
              serverGroupDropdown |-> serverGroupDropdown,
              serverLoading |-> TRUE,
              serverLatest |-> latest.serverGroup]

\* the synchronous part of populateAzureSubscriptionsDropdown, up to its
\* await of getAzurecoreApi: the new bag of tasks
populateAzureSubscriptionsDropdown(rest) ==
    Add(MarkOld(rest, SubscriptionReloadPcs), Task("getAzurecoreApi"))

\* the synchronous part of populateAzureAccountsDropdown, up to its await of
\* getAllAccounts
populateAzureAccountsDropdown(rest) ==
    /\ loading' = [loading EXCEPT !.accounts = TRUE]
    /\ tasks' = Add(rest, Task("getAllAccounts"))
    /\ UNCHANGED <<model, accountsMap, subscriptionsMap, accountsDropdown,
                   subscriptionsDropdown, serverGroupDropdown, errorMessage,
                   liveValidation, validator, navOutcome, latest>>
    /\ UNCHANGED outsideWizard

\* ---------------------------------------------------------------- account field
\* initialize(): the registerContent callback creates the fields and starts the account reload
Initialize ==
    /\ ~initialized
    /\ initialized' = TRUE
    /\ UNCHANGED started
    /\ populateAzureAccountsDropdown(tasks)

\* refreshButton.onDidClick
RefreshClick ==
    /\ CanStart
    /\ started' = started + 1
    /\ UNCHANGED initialized
    /\ populateAzureAccountsDropdown(tasks)

\* signInButton.onDidClick, up to its await of the linkedAccount command
SignInClick ==
    /\ CanStart
    /\ started' = started + 1
    /\ tasks' = Add(tasks, Task("linkedAccount"))
    /\ UNCHANGED <<initialized, model, accountsMap, subscriptionsMap, accountsDropdown,
                   subscriptionsDropdown, serverGroupDropdown, loading, errorMessage,
                   liveValidation, validator, navOutcome, latest>>
    /\ UNCHANGED outsideWizard

\* signInButton.onDidClick resumes after the linkedAccount command
LinkedAccountReturn(t) ==
    /\ t \in Suspended("linkedAccount")
    /\ UNCHANGED <<initialized, started>>
    /\ populateAzureAccountsDropdown(Remove(tasks, t))

\* mutant of DefaultAccount: the store takes the last account
DefaultAccount_Last(accounts) == Some(accounts[Len(accounts)])

\* what populateAzureAccountsDropdown writes to model.azureAccount after filling the field
DefaultAccount(accounts) == Some(accounts[1])

\* populateAzureAccountsDropdown resumes with the accounts of the credential store
GetAllAccountsReturn(t, accounts) ==
    /\ t \in Suspended("getAllAccounts")
    /\ IF Len(accounts) = 0
       THEN /\ errorMessage' = "Sign in to an Azure account first"
            /\ tasks' = Remove(tasks, t)
            /\ UNCHANGED <<model, accountsMap, accountsDropdown, loading>>
       ELSE /\ errorMessage' = ""
            /\ accountsDropdown' = addDropdownValues([i \in 1..Len(accounts) |-> AccountCategoryValue(accounts[i])])
            /\ accountsMap' = MapSetAll(accountsMap, [i \in 1..Len(accounts) |-> AccountEntry(accounts[i])])
            /\ model' = [model EXCEPT !.azureAccount = DefaultAccount(accounts)]
            /\ loading' = [loading EXCEPT !.accounts = FALSE, !.subscription = TRUE]
            /\ tasks' = populateAzureSubscriptionsDropdown(Remove(tasks, t))
    /\ UNCHANGED <<initialized, started, subscriptionsMap, subscriptionsDropdown, serverGroupDropdown,
                   liveValidation, validator, navOutcome, latest>>
    /\ UNCHANGED outsideWizard

\* getAllAccounts rejects: populateAzureAccountsDropdown throws at its await,
\* and neither it nor initialize / the onDidClick handlers catch
GetAllAccountsRejected(t) ==
    /\ t \in Suspended("getAllAccounts")
    /\ tasks' = Remove(tasks, t)
    /\ UNCHANGED <<initialized, started, model, accountsMap, subscriptionsMap, accountsDropdown,
                   subscriptionsDropdown, serverGroupDropdown, loading, errorMessage,
                   liveValidation, validator, navOutcome, latest>>
    /\ UNCHANGED outsideWizard

\* _azureAccountsDropdown.onValueChanged: the user selects the i-th account
AccountValueChanged(i) ==
    /\ i \in 1..Len(accountsDropdown.values)
    /\ CanStart
    /\ started' = started + 1
    /\ accountsDropdown' = [accountsDropdown EXCEPT !.sel = i]
    /\ LET selected == accountsDropdown.values[i].displayName
       IN model' = [model EXCEPT !.azureAccount = MapGet(accountsMap, selected)]
    /\ loading' = [loading EXCEPT !.subscription = TRUE]
    /\ tasks' = populateAzureSubscriptionsDropdown(tasks)
    /\ UNCHANGED <<initialized, accountsMap, subscriptionsMap, subscriptionsDropdown,
                   serverGroupDropdown, errorMessage, liveValidation, validator,
                   navOutcome, latest>>
    /\ UNCHANGED outsideWizard

\* ---------------------------------------------------------------- subscription field
\* mutant of DefaultSubscription: the store keeps the subscription it had
DefaultSubscription_Stale(dd) == model.azureSubscription

\* what populateAzureSubscriptionsDropdown writes to model.azureSubscription
\* after filling the field
DefaultSubscription(dd) == Some(The(Value(dd)).name)

\* populateAzureSubscriptionsDropdown resumes after getAzurecoreApi and reads the account field
AzurecoreApiReturn(t) ==
    /\ t \in Suspended("getAzurecoreApi")
    /\ LET rest == Remove(tasks, t)
           currentAccountDropdownValue == Value(accountsDropdown)
       IN IF currentAccountDropdownValue = None
          THEN LET p == populateServerGroupDropdown(rest, model, subscriptionsDropdown)
               IN /\ tasks' = p.tasks
                  /\ serverGroupDropdown' = p.serverGroupDropdown
                  /\ loading' = [loading EXCEPT !.subscription = FALSE,
                                                !.serverGroup = p.serverLoading]
                  /\ latest' = [latest EXCEPT !.serverGroup = p.serverLatest]
          ELSE /\ tasks' = Add(rest, [t EXCEPT
                              !.pc = "getSubscriptions",
                              !.account = MapGet(accountsMap, The(currentAccountDropdownValue).name)])
               /\ UNCHANGED <<serverGroupDropdown, loading, latest>>
    /\ UNCHANGED <<initialized, started, model, accountsMap, subscriptionsMap, accountsDropdown,
                   subscriptionsDropdown, errorMessage, liveValidation, validator, navOutcome>>
    /\ UNCHANGED outsideWizard

\* populateAzureSubscriptionsDropdown resumes with the subscriptions of the account
GetSubscriptionsReturn(t, subscriptions) ==
    /\ t \in Suspended("getSubscriptions")
    /\ subscriptions \in SubscriptionLists(t.account)
    /\ LET rest == Remove(tasks, t)
       IN IF subscriptions = None \/ Len(The(subscriptions)) = 0
          THEN LET dd == updateProperties(<<>>)
                   p == populateServerGroupDropdown(rest, model, dd)
               IN /\ subscriptionsDropdown' = dd
                  /\ tasks' = p.tasks
                  /\ serverGroupDropdown' = p.serverGroupDropdown
                  /\ loading' = [loading EXCEPT !.subscription = FALSE,
                                                !.serverGroup = p.serverLoading]
                  /\ latest' = [subscription |-> Produced(t, latest.subscription, dd.values),
                                serverGroup |-> p.serverLatest]
                  /\ UNCHANGED <<model, subscriptionsMap>>
          ELSE LET sorted == SortSubscriptions(The(subscriptions))
                   dd == addDropdownValues([i \in 1..Len(sorted) |-> SubscriptionCategoryValue(sorted[i])])
                   map == MapSetAll(subscriptionsMap, [i \in 1..Len(sorted) |-> SubscriptionEntry(sorted[i])])
                   subscription == MapGet(map, The(Value(dd)).name)
               IN /\ subscriptionsDropdown' = dd
                  /\ subscriptionsMap' = map
                  /\ model' = [model EXCEPT
                        !.azureSubscription = DefaultSubscription(dd),
                        !.azureSubscriptionDisplayName = Some(The(Value(dd)).displayName)]
                  /\ tasks' = Add(rest, [t EXCEPT
                        !.pc = "getAccountSecurityToken",
                        !.account = model.azureAccount,
                        !.tenant = IF subscription = None THEN None
                                   ELSE Some(The(subscription).tenant)])
                  /\ latest' = [latest EXCEPT !.subscription = Produced(t, @, dd.values)]
                  /\ UNCHANGED <<serverGroupDropdown, loading>>
    /\ UNCHANGED <<initialized, started, accountsMap, accountsDropdown, errorMessage,
                   liveValidation, validator, navOutcome>>
    /\ UNCHANGED outsideWizard

\* populateAzureSubscriptionsDropdown resumes with the security token and starts the server reload
SecurityTokenReturn(t) ==
    /\ t \in Suspended("getAccountSecurityToken")
    /\ LET mdl == [model EXCEPT !.securityToken = SecurityToken(t.account, t.tenant)]
           p == populateServerGroupDropdown(Remove(tasks, t), mdl, subscriptionsDropdown)
       IN /\ model' = mdl
          /\ tasks' = p.tasks
          /\ serverGroupDropdown' = p.serverGroupDropdown
          /\ loading' = [loading EXCEPT !.subscription = FALSE, !.serverGroup = p.serverLoading]
          /\ latest' = [latest EXCEPT !.serverGroup = p.serverLatest]
    /\ UNCHANGED <<initialized, started, accountsMap, subscriptionsMap, accountsDropdown,
                   subscriptionsDropdown, errorMessage, liveValidation, validator, navOutcome>>
    /\ UNCHANGED outsideWizard

\* _azureSubscriptionsDropdown.onValueChanged: the user selects the i-th
\* subscription; the handler runs up to its await of getAccountSecurityToken
SubscriptionValueChanged(i) ==
    /\ i \in 1..Len(subscriptionsDropdown.values)
    /\ CanStart
    /\ started' = started + 1
    /\ LET dd == [subscriptionsDropdown EXCEPT !.sel = i]
           currentSubscriptionValue == The(Value(dd))
           subscription == MapGet(subscriptionsMap, currentSubscriptionValue.name)
       IN /\ subscriptionsDropdown' = dd
          /\ model' = [model EXCEPT
                !.azureSubscription = Some(currentSubscriptionValue.name),
                !.azureSubscriptionDisplayName = Some(currentSubscriptionValue.displayName)]
          /\ tasks' = Add(tasks, [Task("onValueChanged.getAccountSecurityToken") EXCEPT
                !.account = model.azureAccount,
                !.tenant = IF subscription = None THEN None
                           ELSE Some(The(subscription).tenant)])
    /\ UNCHANGED <<initialized, accountsMap, subscriptionsMap, accountsDropdown,
                   serverGroupDropdown, loading, errorMessage, liveValidation, validator,
                   navOutcome, latest>>
    /\ UNCHANGED outsideWizard

\* the onValueChanged handler resumes with the security token and starts the server reload
SubscriptionTokenReturn(t) ==
    /\ t \in Suspended("onValueChanged.getAccountSecurityToken")
    /\ LET mdl == [model EXCEPT !.securityToken = SecurityToken(t.account, t.tenant)]
           p == populateServerGroupDropdown(Remove(tasks, t), mdl, subscriptionsDropdown)
       IN /\ model' = mdl
          /\ tasks' = p.tasks
          /\ serverGroupDropdown' = p.serverGroupDropdown
          /\ loading' = [loading EXCEPT !.serverGroup = p.serverLoading]
          /\ latest' = [latest EXCEPT !.serverGroup = p.serverLatest]
    /\ UNCHANGED <<initialized, started, accountsMap, subscriptionsMap, accountsDropdown,
                   subscriptionsDropdown, errorMessage, liveValidation, validator, navOutcome>>
    /\ UNCHANGED outsideWizard

\* ---------------------------------------------------------------- server field
\* mutant of SetServer: only the resource group is written
SetServer_GroupOnly(mdl, value) ==
    [mdl EXCEPT !.azureResouceGroup = Some(ResourceGroupOf(value.name))]

\* the store after the page copies the server field's shown value into it
SetServer(mdl, value) ==
    [mdl EXCEPT !.azureServerName = Some(value.displayName),
                !.azureResouceGroup = Some(ResourceGroupOf(value.name))]

\* populateServerGroupDropdown resumes with the response of getRequest
ServerRequestReturn(t, response) ==
    /\ t \in Suspended("getRequest")
    /\ response \in ServerResponses(t.sub)
    /\ tasks' = Remove(tasks, t)
    /\ IF response.value = None
       THEN \* response.data.value.length: TypeError, the reload ends here
            UNCHANGED <<model, serverGroupDropdown, loading, latest>>
       ELSE IF Len(The(response.value)) = 0
       THEN /\ serverGroupDropdown' = updateProperties(NoServersValues)
            /\ loading' = [loading EXCEPT !.serverGroup = FALSE]
            /\ latest' = [latest EXCEPT !.serverGroup = Produced(t, @, NoServersValues)]
            /\ UNCHANGED model
       ELSE LET dd == addDropdownValues([i \in 1..Len(The(response.value)) |-> ServerCategoryValue(The(response.value)[i])])
            IN /\ serverGroupDropdown' = dd
               /\ model' = IF Value(dd) # None THEN SetServer(model, The(Value(dd))) ELSE model
               /\ loading' = [loading EXCEPT !.serverGroup = FALSE]
               /\ latest' = [latest EXCEPT !.serverGroup = Produced(t, @, dd.values)]
    /\ UNCHANGED <<initialized, started, accountsMap, subscriptionsMap, accountsDropdown,
                   subscriptionsDropdown, errorMessage, liveValidation, validator, navOutcome>>
    /\ UNCHANGED outsideWizard

\* _serverGroupDropdown.onValueChanged: the user selects the i-th entry
ServerValueChanged(i) ==
    /\ i \in 1..Len(serverGroupDropdown.values)
    /\ LET dd == [serverGroupDropdown EXCEPT !.sel = i]
           selected == serverGroupDropdown.values[i].displayName
       IN /\ serverGroupDropdown' = dd
          /\ model' = IF selected = The(Value(dd)).displayName
                      THEN SetServer(model, The(Value(dd))) ELSE model
    /\ UNCHANGED <<initialized, started, accountsMap, subscriptionsMap, accountsDropdown,
                   subscriptionsDropdown, loading, errorMessage, liveValidation, validator,
                   navOutcome, tasks, latest>>
    /\ UNCHANGED outsideWizard

\* ---------------------------------------------------------------- navigation
\* the pages of the wizard (getPages)
NumPages == 4
Pages == 0..(NumPages - 1)

\* The message formValidation looks for in the server field
NoServersFound == "No servers found"

NoServersError ==
    "No servers found in current subscription.\nSelect a different subscription containing at least one server"

\* formValidation: throws a TypeError when the server field has no value,
\* else returns the joined error messages
formValidation(dd) ==
    IF Value(dd) = None THEN [threw |-> TRUE, message |-> ""]
    ELSE IF The(Value(dd)).displayName = NoServersFound
    THEN [threw |-> FALSE, message |-> NoServersError]
    ELSE [threw |-> FALSE, message |-> ""]

\* mutant of IsBackward: the comparison is reversed
IsBackward_Reversed(lastPage, newPage) == newPage > lastPage

\* the validator onEnter registers: TRUE for a backward navigation
IsBackward(lastPage, newPage) == newPage < lastPage

\* mutant of InForce: the validator of onEnter stays registered
InForce_Always(v) == TRUE

\* the registered validator is the one onEnter registers
InForce(v) == v = "onEnter"

\* onEnter registers the page's navigation validator
OnEnter ==
    /\ validator' = "onEnter"
    /\ navOutcome' = "none"
    /\ UNCHANGED <<initialized, started, model, accountsMap, subscriptionsMap, accountsDropdown,
                   subscriptionsDropdown, serverGroupDropdown, loading, errorMessage,
                   liveValidation, tasks, latest>>
    /\ UNCHANGED outsideWizard

\* mutant of OnLeave: leaving the page forgets the server
OnLeave_ForgetsServer ==
    /\ validator' = "onLeave"
    /\ navOutcome' = "none"
    /\ model' = [model EXCEPT !.azureServerName = None, !.azureResouceGroup = None]
    /\ UNCHANGED <<initialized, started, accountsMap, subscriptionsMap, accountsDropdown,
                   subscriptionsDropdown, serverGroupDropdown, loading, errorMessage,
                   liveValidation, tasks, latest>>
    /\ UNCHANGED outsideWizard

\* onLeave registers a validator that allows every navigation
OnLeave ==
    /\ validator' = "onLeave"
    /\ navOutcome' = "none"
    /\ UNCHANGED <<initialized, started, model, accountsMap, subscriptionsMap, accountsDropdown,
                   subscriptionsDropdown, serverGroupDropdown, loading, errorMessage,
                   liveValidation, tasks, latest>>
    /\ UNCHANGED outsideWizard

\* the wizard's Next or Back button asks the registered validator about a
\* change from lastPage to the page after or before it
NavigationAttempt(lastPage, newPage) ==
    /\ newPage \in {lastPage - 1, lastPage + 1}
    /\ IF ~InForce(validator) \/ IsBackward(lastPage, newPage)
       THEN /\ navOutcome' = "allowed"
            /\ UNCHANGED <<liveValidation, errorMessage>>
       ELSE LET result == formValidation(serverGroupDropdown)
            IN /\ liveValidation' = TRUE
               /\ IF result.threw
                  THEN /\ navOutcome' = "threw"
                       /\ UNCHANGED errorMessage
                  ELSE /\ errorMessage' = result.message
                       /\ navOutcome' = IF result.message # "" THEN "blocked" ELSE "allowed"
    /\ UNCHANGED <<initialized, started, model, accountsMap, subscriptionsMap, accountsDropdown,
                   subscriptionsDropdown, serverGroupDropdown, loading, validator, tasks,
                   latest>>
    /\ UNCHANGED outsideWizard

\* ---------------------------------------------------------------- specification
Next ==
    \/ Initialize
    \/ RefreshClick
    \/ SignInClick
    \/ \E t \in BagToSet(tasks) : LinkedAccountReturn(t)
    \/ \E t \in BagToSet(tasks), accounts \in AccountLists : GetAllAccountsReturn(t, accounts)
    \/ \E t \in BagToSet(tasks) : GetAllAccountsRejected(t)
    \/ \E i \in 1..2 : AccountValueChanged(i)
    \/ \E t \in BagToSet(tasks) : AzurecoreApiReturn(t)
    \/ \E t \in BagToSet(tasks) : \E subscriptions \in SubscriptionLists(t.account) :
            GetSubscriptionsReturn(t, subscriptions)
    \/ \E t \in BagToSet(tasks) : SecurityTokenReturn(t)
    \/ \E i \in 1..2 : SubscriptionValueChanged(i)
    \/ \E t \in BagToSet(tasks) : SubscriptionTokenReturn(t)
    \/ \E t \in BagToSet(tasks) : \E response \in ServerResponses(t.sub) :
            ServerRequestReturn(t, response)
    \/ \E i \in 1..2 : ServerValueChanged(i)
    \/ OnEnter
    \/ OnLeave
    \/ \E lastPage \in Pages, newPage \in Pages : NavigationAttempt(lastPage, newPage)

Spec == Init /\ [][Next]_vars

\* ================================================================ PostgresOverviewPage
\* number of messages shown in a behaviour
MaxNotifications == 2

PostgresButtons == {"resetPassword", "delete", "refresh"}

\* the click handlers that have not ended
RunningHandlers == {b \in PostgresButtons : handlers[b] # "idle"}

\* a button can be clicked: it is enabled (a disabled button fires no click)
\* and the messages of the handlers stay within the bound
CanClick(b) ==
    /\ buttons[b]
    /\ Len(notifications) + Cardinality(RunningHandlers) < MaxNotifications

\* mutant of Finally: the finally block is missing
Finally_Missing(btns, b) == btns

\* the finally block of a click handler: button.enabled = true
Finally(btns, b) == [btns EXCEPT ![b] = TRUE]

\* vscode.window.showInformationMessage / showErrorMessage
Show(message) == Append(notifications, message)

\* ---------------------------------------------------------------- Reset password
\* resetPasswordButton.onDidClick, up to its await of promptAndConfirmPassword
ResetPasswordClick ==
    /\ CanClick("resetPassword")
    /\ buttons' = [buttons EXCEPT !.resetPassword = FALSE]
    /\ handlers' = [handlers EXCEPT !.resetPassword = "promptAndConfirmPassword"]
    /\ UNCHANGED <<loaders, refreshes, notifications, wizardVars, notebookVars>>

\* the handler resumes: a password, undefined (the user cancelled) or a rejection
PromptAndConfirmPasswordReturn(outcome) ==
    /\ handlers.resetPassword = "promptAndConfirmPassword"
    /\ notifications' = IF outcome = "password" THEN Show("passwordReset")
                        ELSE IF outcome = "rejected" THEN Show("passwordResetFailed")
                        ELSE notifications
    /\ buttons' = Finally(buttons, "resetPassword")
    /\ handlers' = [handlers EXCEPT !.resetPassword = "idle"]
    /\ UNCHANGED <<loaders, refreshes, wizardVars, notebookVars>>

\* ---------------------------------------------------------------- Delete
\* mutant of DeletionConfirmed: the answer of the prompt is ignored
DeletionConfirmed_Ignored(answer) == TRUE

\* if (await promptForResourceDeletion(...))
DeletionConfirmed(answer) == answer = "true"

\* deleteButton.onDidClick, up to its await of promptForResourceDeletion
DeleteClick ==
    /\ CanClick("delete")
    /\ buttons' = [buttons EXCEPT !.delete = FALSE]
    /\ handlers' = [handlers EXCEPT !.delete = "promptForResourceDeletion"]
    /\ UNCHANGED <<loaders, refreshes, notifications, wizardVars, notebookVars>>

\* the handler resumes with the answer of the prompt ("true", "false") or its
\* rejection, and calls postgres.server.delete when the user confirmed
PromptForResourceDeletionReturn(answer) ==
    /\ handlers.delete = "promptForResourceDeletion"
    /\ IF answer = "rejected"
       THEN /\ notifications' = Show("resourceDeletionFailed")
            /\ buttons' = Finally(buttons, "delete")
            /\ handlers' = [handlers EXCEPT !.delete = "idle"]
       ELSE IF DeletionConfirmed(answer)
       THEN /\ handlers' = [handlers EXCEPT !.delete = "delete"]
            /\ UNCHANGED <<buttons, notifications>>
       ELSE /\ buttons' = Finally(buttons, "delete")
            /\ handlers' = [handlers EXCEPT !.delete = "idle"]
            /\ UNCHANGED notifications
    /\ UNCHANGED <<loaders, refreshes, wizardVars, notebookVars>>

\* the handler resumes after postgres.server.delete and calls refreshTreeNode
DeleteReturn(outcome) ==
    /\ handlers.delete = "delete"
    /\ IF outcome = "rejected"
       THEN /\ notifications' = Show("resourceDeletionFailed")
            /\ buttons' = Finally(buttons, "delete")
            /\ handlers' = [handlers EXCEPT !.delete = "idle"]
       ELSE /\ handlers' = [handlers EXCEPT !.delete = "refreshTreeNode"]
            /\ UNCHANGED <<buttons, notifications>>
    /\ UNCHANGED <<loaders, refreshes, wizardVars, notebookVars>>

\* the handler resumes after refreshTreeNode
RefreshTreeNodeReturn(outcome) ==
    /\ handlers.delete = "refreshTreeNode"
    /\ notifications' = IF outcome = "rejected" THEN Show("resourceDeletionFailed")
                        ELSE Show("resourceDeleted")
    /\ buttons' = Finally(buttons, "delete")
    /\ handlers' = [handlers EXCEPT !.delete = "idle"]
    /\ UNCHANGED <<loaders, refreshes, wizardVars, notebookVars>>

\* ---------------------------------------------------------------- Refresh
\* refreshButton.onDidClick, up to its await of Promise.all: both models are
\* asked to refresh (no refresh of an earlier click is still running)
PostgresRefreshClick ==
    /\ CanClick("refresh")
    /\ refreshes.postgres # "pending"
    /\ refreshes.controller # "pending"
    /\ buttons' = [buttons EXCEPT !.refresh = FALSE]
    /\ loaders' = [properties |-> TRUE, kibana |-> TRUE, grafana |-> TRUE]
    /\ handlers' = [handlers EXCEPT !.refresh = "Promise.all"]
    /\ refreshes' = [postgres |-> "pending", controller |-> "pending",
                     config |-> FALSE, endpoints |-> FALSE, registrations |-> FALSE]
    /\ UNCHANGED <<notifications, wizardVars, notebookVars>>

\* _postgresModel fires onConfigUpdated during its refresh: handleConfigUpdated
ConfigUpdated ==
    /\ refreshes.postgres = "pending"
    /\ ~refreshes.config
    /\ refreshes' = [refreshes EXCEPT !.config = TRUE]
    /\ loaders' = [loaders EXCEPT !.properties = FALSE]
    /\ UNCHANGED <<buttons, handlers, notifications, wizardVars, notebookVars>>

\* _controllerModel fires onEndpointsUpdated during its refresh: handleEndpointsUpdated
EndpointsUpdated ==
    /\ refreshes.controller = "pending"
    /\ ~refreshes.endpoints
    /\ refreshes' = [refreshes EXCEPT !.endpoints = TRUE]
    /\ loaders' = [loaders EXCEPT !.kibana = FALSE, !.grafana = FALSE]
    /\ UNCHANGED <<buttons, handlers, notifications, wizardVars, notebookVars>>

\* _controllerModel fires onRegistrationsUpdated during its refresh: handleRegistrationsUpdated
RegistrationsUpdated ==
    /\ refreshes.controller = "pending"
    /\ ~refreshes.registrations
    /\ refreshes' = [refreshes EXCEPT !.registrations = TRUE]
    /\ loaders' = [loaders EXCEPT !.properties = FALSE]
    /\ UNCHANGED <<buttons, handlers, notifications, wizardVars, notebookVars>>

\* _postgresModel.refresh() settles: it resolves after it has fired its
\* event, or rejects, having fired it or not
PostgresModelRefreshSettles(outcome) ==
    /\ refreshes.postgres = "pending"
    /\ outcome = "resolved" => refreshes.config
    /\ refreshes' = [refreshes EXCEPT !.postgres = outcome]
    /\ UNCHANGED <<buttons, loaders, handlers, notifications, wizardVars, notebookVars>>

\* _controllerModel.refresh() settles: it resolves after it has fired its
\* events, or rejects, having fired them or not
ControllerModelRefreshSettles(outcome) ==
    /\ refreshes.controller = "pending"
    /\ outcome = "resolved" => (refreshes.endpoints /\ refreshes.registrations)
    /\ refreshes' = [refreshes EXCEPT !.controller = outcome]
    /\ UNCHANGED <<buttons, loaders, handlers, notifications, wizardVars, notebookVars>>

\* Promise.all has settled: both refreshes resolved, or one rejected
RefreshFailed == "rejected" \in {refreshes.postgres, refreshes.controller}

\* the click handler resumes after Promise.all: catch and finally
RefreshHandlerResumes ==
    /\ handlers.refresh = "Promise.all"
    /\ RefreshFailed \/ (refreshes.postgres = "resolved" /\ refreshes.controller = "resolved")
    /\ notifications' = IF RefreshFailed THEN Show("refreshFailed") ELSE notifications
    /\ buttons' = Finally(buttons, "refresh")
    /\ handlers' = [handlers EXCEPT !.refresh = "idle"]
    /\ UNCHANGED <<loaders, refreshes, wizardVars, notebookVars>>

\* ---------------------------------------------------------------- specification
InitPostgres ==
    /\ WizardInit
    /\ \E registrationsLastUpdated, configLastUpdated, endpointsLastUpdated \in BOOLEAN :
          PostgresInit(registrationsLastUpdated, configLastUpdated, endpointsLastUpdated)
    /\ NotebookInit(<<>>)

NextPostgres ==
    \/ ResetPasswordClick
    \/ \E outcome \in {"password", "undefined", "rejected"} : PromptAndConfirmPasswordReturn(outcome)
    \/ DeleteClick
    \/ \E answer \in {"true", "false", "rejected"} : PromptForResourceDeletionReturn(answer)
    \/ \E outcome \in {"resolved", "rejected"} : DeleteReturn(outcome)
    \/ \E outcome \in {"resolved", "rejected"} : RefreshTreeNodeReturn(outcome)
    \/ PostgresRefreshClick
    \/ ConfigUpdated
    \/ EndpointsUpdated
    \/ RegistrationsUpdated
    \/ \E outcome \in {"resolved", "rejected"} : PostgresModelRefreshSettles(outcome)
    \/ \E outcome \in {"resolved", "rejected"} : ControllerModelRefreshSettles(outcome)
    \/ RefreshHandlerResumes

SpecPostgres == InitPostgres /\ [][NextPostgres]_vars

\* every refresh that was started settles, and a handler that can resume does
SpecPostgresFair ==
    /\ SpecPostgres
    /\ WF_vars(\E outcome \in {"resolved", "rejected"} : PostgresModelRefreshSettles(outcome))
    /\ WF_vars(\E outcome \in {"resolved", "rejected"} : ControllerModelRefreshSettles(outcome))
    /\ WF_vars(RefreshHandlerResumes)

\* ================================================================ isNotebookContent
\* A document's content is the sequence of its JSON tokens: the punctuation
\* { } [ ] : , the literals null, true and 1, and any other token is a string.
NotebookKeys == <<"metadata", "nbformat", "nbformat_minor", "cells">>

\* what a member of a document may be
MemberKinds == {"absent", "object", "array", "null", "number", "string"}

\* the tokens of a value of a kind
ValueTokens(kind) ==
    IF kind = "object" THEN <<"{", "}">>
    ELSE IF kind = "array" THEN <<"[", "]">>
    ELSE IF kind = "null" THEN <<"null">>
    ELSE IF kind = "number" THEN <<"1">>
    ELSE <<"s">>

\* the tokens of the members i.. of a document whose member of key k is of kind a[k]
RECURSIVE MemberTokens(_, _)
MemberTokens(a, i) ==
    IF i > Len(NotebookKeys) THEN <<>>
    ELSE IF a[NotebookKeys[i]] = "absent" THEN MemberTokens(a, i + 1)
    ELSE LET rest == MemberTokens(a, i + 1)
         IN <<NotebookKeys[i], ":">> \o ValueTokens(a[NotebookKeys[i]])
                \o (IF rest = <<>> THEN <<>> ELSE <<",">> \o rest)

ObjectTokens(a) == <<"{">> \o MemberTokens(a, 1) \o <<"}">>

MemberAssignments == [{NotebookKeys[i] : i \in 1..Len(NotebookKeys)} -> MemberKinds]

\* the contents isNotebookContent is called with: documents, documents cut
\* before their closing brace, other JSON values, and text that is not JSON
DocumentContents ==
    {ObjectTokens(a) : a \in MemberAssignments}
        \cup {<<"{">> \o MemberTokens(a, 1) : a \in MemberAssignments}
        \cup {<<"null">>, <<"1">>, <<"true">>, <<"s">>, <<"[", "]">>}
        \cup {<<>>, <<"}">>, <<"{", "metadata", "}">>, <<"{", "metadata", ":", "{", "}", ",", "}">>,
              <<"null", "null">>, <<"[">>, <<"{", ":", "1", "}">>}

\* ---------------------------------------------------------------- JSON.parse
Punctuation == {"{", "}", "[", "]", ":", ","}

JsonValue(type) == [type |-> type, members |-> {}]
SyntaxError == [ok |-> FALSE, value |-> JsonValue("undefined"), rest |-> <<>>]
Parsed(value, rest) == [ok |-> TRUE, value |-> value, rest |-> rest]

\* a value that is a literal, a string, [] or {} at the head of ts
ParseSimple(ts) ==
    IF ts = <<>> THEN SyntaxError
    ELSE IF Head(ts) = "null" THEN Parsed(JsonValue("null"), Tail(ts))
    ELSE IF Head(ts) = "true" THEN Parsed(JsonValue("boolean"), Tail(ts))
    ELSE IF Head(ts) = "1" THEN Parsed(JsonValue("number"), Tail(ts))
    ELSE IF Head(ts) = "[" THEN
        IF Len(ts) >= 2 /\ ts[2] = "]" THEN Parsed(JsonValue("array"), SubSeq(ts, 3, Len(ts)))
        ELSE SyntaxError
    ELSE IF Head(ts) = "{" THEN
        IF Len(ts) >= 2 /\ ts[2] = "}" THEN Parsed(JsonValue("object"), SubSeq(ts, 3, Len(ts)))
        ELSE SyntaxError
    ELSE IF Head(ts) \in Punctuation THEN SyntaxError
    ELSE Parsed(JsonValue("string"), Tail(ts))

\* the members of an object after its '{', up to and including its '}':
\* key ':' value, separated by ','; a repeated key keeps the last value
RECURSIVE ParseMembers(_, _)
ParseMembers(ts, members) ==
    IF Len(ts) < 3 \/ ts[1] \in Punctuation \cup {"null", "true", "1"} \/ ts[2] # ":"
    THEN SyntaxError
    ELSE LET v == ParseSimple(SubSeq(ts, 3, Len(ts)))
             added == {e \in members : e[1] # ts[1]} \cup {<<ts[1], v.value>>}
         IN IF ~v.ok \/ v.rest = <<>> THEN SyntaxError
            ELSE IF Head(v.rest) = "}"
            THEN Parsed([type |-> "object", members |-> added], Tail(v.rest))
            ELSE IF Head(v.rest) = "," THEN ParseMembers(Tail(v.rest), added)
            ELSE SyntaxError

\* JSON.parse(documentContent): the value, or a SyntaxError
JSONparse(ts) ==
    LET r == IF ts # <<>> /\ Head(ts) = "{" /\ ~(Len(ts) >= 2 /\ ts[2] = "}")
             THEN ParseMembers(Tail(ts), {})
             ELSE ParseSimple(ts)
    IN IF r.ok /\ r.rest = <<>> THEN r ELSE SyntaxError

\* doc.key: undefined when doc has no such property
Property(doc, key) ==
    IF \E e \in doc.members : e[1] = key
    THEN (CHOOSE e \in doc.members : e[1] = key)[2]
    ELSE JsonValue("undefined")

\* typeof
typeof(v) == IF v.type \in {"null", "array", "object"} THEN "object" ELSE v.type

\* the try block of isNotebookContent: "true" when it returns true,
\* "SyntaxError" or "TypeError" when it throws, "" when it falls through
TryBlock(content) ==
    LET r == JSONparse(content)
        doc == r.value
    IN IF ~r.ok THEN "SyntaxError"
       ELSE IF doc.type = "null" THEN "TypeError"
       ELSE IF /\ typeof(Property(doc, "metadata")) = "object"
               /\ typeof(Property(doc, "nbformat")) = "number"
               /\ typeof(Property(doc, "nbformat_minor")) = "number"
               /\ typeof(Property(doc, "cells")) = "object"
       THEN "true"
       ELSE ""

\* mutant of isNotebookContent: the catch is missing
isNotebookContent_NoCatch(content) ==
    IF TryBlock(content) = "true" THEN "true"
    ELSE IF TryBlock(content) = "" THEN "false"
    ELSE "threw"

\* isNotebookContent: "true" or "false"; the empty catch swallows every error
isNotebookContent(content) == IF TryBlock(content) = "true" THEN "true" ELSE "false"

\* isNotebookContent is called with documentContent
IsNotebookContentCall ==
    /\ isNotebook = "none"
    /\ isNotebook' = isNotebookContent(documentContent)
    /\ UNCHANGED <<documentContent, wizardVars, postgresVars>>

InitNotebook ==
    /\ WizardInit
    /\ PostgresInit(FALSE, FALSE, FALSE)
    /\ \E content \in DocumentContents : NotebookInit(content)

NextNotebook == IsNotebookContentCall

SpecNotebook == InitNotebook /\ [][NextNotebook]_vars

\* ---------------------------------------------------------------- helpers of the properties
\* the suspended handlers of a bag that wait at pc
PcBag(bag, pc) == [t \in {x \in BagToSet(bag) : x.pc = pc} |-> CopiesIn(t, bag)]

CountPc(bag, pc) == BagCardinality(PcBag(bag, pc))

\* no reload of the subscription field (of the server field) is in flight
SubscriptionReloadsDone == \A t \in BagToSet(tasks) : t.pc \notin SubscriptionReloadPcs
ServerReloadsDone == \A t \in BagToSet(tasks) : t.pc \notin ServerReloadPcs

\* the cascade has settled
Settled == tasks = EmptyBag

\* the ids of the subscriptions an account can see
SubscriptionIdsOf(account) ==
    UNION {{The(list)[i].id : i \in 1..Len(The(list))} :
              list \in {l \in SubscriptionLists(account) : l # None}}

\* the names (the resource groups) of the servers of a set of subscriptions
ServerNamesIn(ids) ==
    UNION {{ServersOf(Some(id))[i].name : i \in 1..Len(ServersOf(Some(id)))} : id \in ids}

\* the store holds a server that is not the 'No servers found' entry
HoldsServer ==
    /\ model.azureServerName # None
    /\ model.azureServerName # Some("No servers found")

\* ---------------------------------------------------------------- C1
\* C1: a step that changes the account of the store while the store holds a
\* subscription and a server leaves the store without subscription, server and
\* resource group, so that the new account is never held together with a
\* selection made under the previous account.
C1_AccountChangeClearsDownstream ==
    [][(/\ model.azureAccount # None
        /\ model'.azureAccount # model.azureAccount
        /\ model.azureSubscription # None
        /\ model.azureServerName # None)
       => (/\ model'.azureSubscription = None
           /\ model'.azureServerName = None
           /\ model'.azureResouceGroup = None)]_vars

\* ---------------------------------------------------------------- C2
\* this step issues the server-list request
ServerRequestIssued == CountPc(tasks', "getRequest") > CountPc(tasks, "getRequest")

\* the request it issues: the one no newer server reload has superseded
IssuedServerRequests == {t \in BagToSet(tasks') : t.pc = "getRequest" /\ ~t.old}

\* the getSubscriptions call this step issues, if it issues one
IssuedSubscriptionFetches ==
    IF CountPc(tasks', "getSubscriptions") > CountPc(tasks, "getSubscriptions")
    THEN {t \in BagToSet(tasks') :
             t.pc = "getSubscriptions" /\ CopiesIn(t, tasks') > CopiesIn(t, tasks)}
    ELSE {}

\* C2: every step that issues the server-list request issues it for the
\* subscription that the store holds and the subscription field shows at that
\* moment, and every step that issues getSubscriptions issues it for the
\* account the store holds at that moment.
C2_FetchAgainstCurrentUpstream ==
    [][/\ ServerRequestIssued =>
             \A t \in IssuedServerRequests :
                /\ t.sub # None
                /\ t.sub = model'.azureSubscription
                /\ Value(subscriptionsDropdown') # None
                /\ The(t.sub) = The(Value(subscriptionsDropdown')).name
       /\ \A t \in IssuedSubscriptionFetches :
             /\ t.account # None
             /\ t.account = model'.azureAccount]_vars

\* a server-list request and a subscription fetch are in flight at once,
\* the request being for the subscription the user selected
C2_Witness ==
    /\ \E t \in BagToSet(tasks) :
          /\ t.pc = "getRequest"
          /\ t.sub = Some(Str_S1)
          /\ t.sub = model.azureSubscription
    /\ \E t \in BagToSet(tasks) : t.pc = "getSubscriptions"

\* ---------------------------------------------------------------- C3
\* C3: once the reloads of a field have all completed, the candidate list of
\* the field is the one produced by the reload that was started last among
\* them, whichever fetch resolved first.
C3_NewerReloadSupersedes ==
    /\ SubscriptionReloadsDone => subscriptionsDropdown.values = latest.subscription
    /\ ServerReloadsDone => serverGroupDropdown.values = latest.serverGroup

\* ---------------------------------------------------------------- C4
\* C4: in every state, a server and resource group in the store come with a
\* subscription in the store, and the server is one of that subscription.
C4_ServerBelongsToSubscription ==
    (HoldsServer /\ model.azureResouceGroup # None) =>
        /\ model.azureSubscription # None
        /\ The(model.azureServerName) \in ServerNamesIn({The(model.azureSubscription)})

\* ---------------------------------------------------------------- C5
\* the part of a resource id between its 'resourceGroups' segment and the
\* next 'providers' segment
Between(id) ==
    LET i == CHOOSE i \in 1..Len(id) :
                 id[i] = "resourceGroups" /\ \A k \in 1..(i - 1) : id[k] # "resourceGroups"
        j == CHOOSE j \in (i + 1)..Len(id) :
                 id[j] = "providers" /\ \A k \in (i + 1)..(j - 1) : id[k] # "providers"
    IN SubSeq(id, i + 1, j - 1)

\* the server field shows a server (not the 'No servers found' entry)
ShowsServer ==
    /\ Value(serverGroupDropdown) # None
    /\ The(Value(serverGroupDropdown)).displayName # "No servers found"

AllSet ==
    /\ model.azureAccount # None
    /\ model.azureSubscription # None
    /\ HoldsServer

\* C6: while the page is entered, formValidation returns the empty message
\* exactly when account, subscription and a real server are set, and returns
\* a message (blocking the navigation) when one of them is not.
C6_ValidatesRequiredFields ==
    validator = "onEnter" =>
        LET result == formValidation(serverGroupDropdown)
        IN /\ (~result.threw /\ result.message = "") <=> AllSet
           /\ ~AllSet => (~result.threw /\ result.message # "")

\* ---------------------------------------------------------------- C7
\* C7: a server reload that completes with an empty server list leaves the
\* server field with the single entry 'No servers found' (name ''), shown as
\* its value, the field ready, and formValidation returning an error.
C7_EmptyServerListShowsSentinel ==
    [][\A t \in BagToSet(tasks) :
          ServerRequestReturn(t, [status |-> 200, value |-> Some(<<>>)]) =>
              /\ serverGroupDropdown'.values = <<[displayName |-> "No servers found", name |-> <<"">>]>>
              /\ Value(serverGroupDropdown') = Some([displayName |-> "No servers found", name |-> <<"">>])
              /\ ~loading'.serverGroup
              /\ ~formValidation(serverGroupDropdown').threw
              /\ formValidation(serverGroupDropdown').message # ""]_vars

\* the reload for subscription S2, which has no servers, has completed
C7_Witness ==
    /\ ServerReloadsDone
    /\ model.azureSubscription = Some(Str_S2)
    /\ Len(serverGroupDropdown.values) = 1
    /\ serverGroupDropdown.values[1].displayName = "No servers found"
    /\ ~loading.serverGroup

\* ---------------------------------------------------------------- C8
\* C8: every forward navigation attempt while the page is entered ends either
\* blocked, with a message displayed, or allowed; none ends otherwise.
C8_ForwardAttemptBlockedOrAdvanced ==
    [][\A lastPage \in Pages, newPage \in Pages :
          (/\ validator = "onEnter"
           /\ newPage > lastPage
           /\ NavigationAttempt(lastPage, newPage))
          => \/ navOutcome' = "blocked" /\ errorMessage' # ""
             \/ navOutcome' = "allowed"]_vars

\* ---------------------------------------------------------------- C9
\* C9: a navigation attempt to a preceding page is allowed and leaves the
\* displayed message and liveValidation unchanged, whatever the fields hold;
\* liveValidation is set only by a forward attempt.
C9_BackwardAlwaysAllowed ==
    [][/\ \A lastPage \in Pages, newPage \in Pages :
             (newPage < lastPage /\ NavigationAttempt(lastPage, newPage)) =>
                 /\ navOutcome' = "allowed"
                 /\ UNCHANGED <<liveValidation, errorMessage>>
       /\ liveValidation' # liveValidation =>
             \E lastPage \in Pages, newPage \in Pages :
                 newPage > lastPage /\ NavigationAttempt(lastPage, newPage)]_vars

\* a navigation was allowed under the onEnter validator although the validator
\* has never run and the server field shows 'No servers found'
C9_Witness ==
    /\ validator = "onEnter"
    /\ navOutcome = "allowed"
    /\ ~liveValidation
    /\ formValidation(serverGroupDropdown).message # ""

\* ---------------------------------------------------------------- C10
\* C10: once the fetches of a field have completed, whatever their outcome,
\* the field is marked ready (its loader is not loading).
C10_ReadyAfterEveryOutcome ==
    /\ (initialized /\ CountPc(tasks, "getAllAccounts") = 0) => ~loading.accounts
    /\ SubscriptionReloadsDone => ~loading.subscription
    /\ ServerReloadsDone => ~loading.serverGroup

\* ---------------------------------------------------------------- C11
\* this step starts a reload of the subscription field
SubscriptionReloadIssued ==
    \E pc \in SubscriptionReloadPcs : CountPc(tasks', pc) > CountPc(tasks, pc)

\* C11: an account reload to which the credential store returns no accounts
\* shows the warning, starts no subscription fetch, and leaves the
\* subscription and server fields and the store's subscription, server and
\* resource group empty, whatever an earlier reload had put there.
C11_NoAccountsEmptiesDependents ==
    [][\A t \in BagToSet(tasks) :
          GetAllAccountsReturn(t, <<>>) =>
              /\ errorMessage' = "Sign in to an Azure account first"
              /\ ~SubscriptionReloadIssued
              /\ subscriptionsDropdown'.values = <<>>
              /\ serverGroupDropdown'.values = <<>>
              /\ model'.azureSubscription = None
              /\ model'.azureServerName = None
              /\ model'.azureResouceGroup = None]_vars

\* ---------------------------------------------------------------- C12
\* C12: a subscription reload to which getSubscriptions returns an empty or
\* undefined list leaves the subscription field without value, runs the server
\* reload to completion without a server-list request (server field empty and
\* ready), and leaves the store without server and resource group.
C12_NoSubscriptionsClearsDependents ==
    [][\A t \in BagToSet(tasks) : \A subscriptions \in {None, Some(<<>>)} :
          GetSubscriptionsReturn(t, subscriptions) =>
              /\ Value(subscriptionsDropdown') = None
              /\ ~loading'.subscription
              /\ ~ServerRequestIssued
              /\ serverGroupDropdown'.values = <<>>
              /\ ~loading'.serverGroup
              /\ model'.azureServerName = None
              /\ model'.azureResouceGroup = None]_vars

\* ---------------------------------------------------------------- C13
\* C13: when getAllAccounts rejects during a reload, the step that ends the
\* handler displays a message; when the server-list request is answered with
\* a non-2xx status, the step that handles the response ends the reload with
\* the server field ready or with a message displayed.
C13_FailuresSurfacedAsMessage ==
    [][\A t \in BagToSet(tasks) :
          /\ GetAllAccountsRejected(t) => errorMessage' # ""
          /\ ServerRequestReturn(t, [status |-> 401, value |-> None]) =>
                (~loading'.serverGroup \/ errorMessage' # "")]_vars

\* ---------------------------------------------------------------- C14
\* a character without its case
Lower(c) == IF c \in 65..90 THEN c + 32 ELSE c

\* a is not after b in the lexicographic order that ignores case
LeqIgnoringCase(a, b) ==
    \/ /\ Len(a) <= Len(b)
       /\ \A j \in 1..Len(a) : Lower(a[j]) = Lower(b[j])
    \/ \E k \in 1..Len(a) :
          /\ k <= Len(b)
          /\ \A j \in 1..(k - 1) : Lower(a[j]) = Lower(b[j])
          /\ Lower(a[k]) < Lower(b[k])

\* the field dd shows its first candidate as selected
ShowsFirst(dd) == dd.values # <<>> /\ Value(dd) = Some(dd.values[1])

\* C14: a reload that completes with a non-empty list leaves the store with
\* the first candidate of the displayed list, which the field shows as
\* selected: the first returned account, a subscription whose name is not
\* after any other's ignoring case, the first server of the response with the
\* resource group between the markers of its id.
C14_DefaultIsFirstCandidate ==
    [][\A t \in BagToSet(tasks) :
          /\ \A accounts \in AccountLists \ {<<>>} :
                GetAllAccountsReturn(t, accounts) =>
                    /\ model'.azureAccount = Some(accounts[1])
                    /\ ShowsFirst(accountsDropdown')
                    /\ accountsDropdown'.values[1].displayName = accounts[1].displayName
          /\ \A subscriptions \in SubscriptionLists(t.account) \ {None, Some(<<>>)} :
                GetSubscriptionsReturn(t, subscriptions) =>
                    /\ ShowsFirst(subscriptionsDropdown')
                    /\ model'.azureSubscription = Some(subscriptionsDropdown'.values[1].name)
                    /\ model'.azureSubscriptionDisplayName =
                           Some(subscriptionsDropdown'.values[1].displayName)
                    /\ \E i \in 1..Len(The(subscriptions)) :
                          /\ The(subscriptions)[i].id = The(model'.azureSubscription)
                          /\ \A j \in 1..Len(The(subscriptions)) :
                                LeqIgnoringCase(The(subscriptions)[i].name, The(subscriptions)[j].name)
          /\ \A response \in ServerResponses(t.sub) :
                (/\ response.value # None
                 /\ response.value # Some(<<>>)
                 /\ ServerRequestReturn(t, response)) =>
                    /\ ShowsFirst(serverGroupDropdown')
                    /\ model'.azureServerName = Some(The(response.value)[1].name)
                    /\ serverGroupDropdown'.values[1].name = The(response.value)[1].id
                    /\ model'.azureResouceGroup = Some(Between(The(response.value)[1].id))]_vars

\* the reload for account user1 has completed: the store holds user1 and the
\* subscription 'beta', first in sorted order although returned second
C14_Witness ==
    /\ Settled
    /\ model.azureAccount = Some(Acc1)
    /\ model.azureSubscription = Some(Str_S2)
    /\ Value(subscriptionsDropdown) = Some(SubscriptionCategoryValue(Sub2))
    /\ Value(accountsDropdown) = Some(AccountCategoryValue(Acc1))

\* ---------------------------------------------------------------- C15
\* C15: the candidates of the subscription field after a reload are the
\* entries of a permutation of the returned list in which no subscription's
\* name is after a later one's ignoring case, and the candidates of the
\* account field are the entries of the returned accounts in their order.
C15_SubscriptionsSortedAccountsInOrder ==
    [][\A t \in BagToSet(tasks) :
          /\ \A subscriptions \in SubscriptionLists(t.account) \ {None, Some(<<>>)} :
                GetSubscriptionsReturn(t, subscriptions) =>
                    LET list == The(subscriptions)
                        shown == subscriptionsDropdown'.values
                    IN /\ Len(shown) = Len(list)
                       /\ \E perm \in [1..Len(list) -> 1..Len(list)] :
                             /\ \A i, j \in 1..Len(list) : perm[i] = perm[j] => i = j
                             /\ \A i \in 1..Len(list) :
                                   /\ shown[i].name = list[perm[i]].id
                                   /\ shown[i].displayName =
                                          list[perm[i]].name \o <<32, 45, 32>> \o list[perm[i]].id
                             /\ \A i, j \in 1..Len(list) :
                                   i < j => LeqIgnoringCase(list[perm[i]].name, list[perm[j]].name)
          /\ \A accounts \in AccountLists \ {<<>>} :
                GetAllAccountsReturn(t, accounts) =>
                    /\ Len(accountsDropdown'.values) = Len(accounts)
                    /\ \A i \in 1..Len(accounts) :
                          accountsDropdown'.values[i].displayName = accounts[i].displayName]_vars

\* the list [Dev, beta] has been placed in the subscription field as [beta, Dev]
C15_Witness ==
    /\ subscriptionsDropdown.values =
           <<SubscriptionCategoryValue(Sub2), SubscriptionCategoryValue(Sub1)>>
    /\ Len(accountsDropdown.values) = 2

\* ---------------------------------------------------------------- C16
\* the characters of a server's display name
NameCodes(name) ==
    IF name = "srv1" THEN <<115, 114, 118, 49>>
    ELSE IF name = "srv2" THEN <<115, 114, 118, 50>>
    ELSE <<115, 114, 118, 51>>

\* C16: after a server reload that completes with a non-empty response, no
\* candidate of the server field has a display name that is after a later
\* candidate's ignoring case.
C16_ServersSorted ==
    [][\A t \in BagToSet(tasks) : \A response \in ServerResponses(t.sub) :
          (/\ response.value # None
           /\ response.value # Some(<<>>)
           /\ ServerRequestReturn(t, response)) =>
              \A i, j \in 1..Len(serverGroupDropdown'.values) :
                  i < j => LeqIgnoringCase(NameCodes(serverGroupDropdown'.values[i].displayName),
                                           NameCodes(serverGroupDropdown'.values[j].displayName))]_vars

\* ---------------------------------------------------------------- C17
\* the keys of an index
KeysOf(m) == {e[1] : e \in m}

\* C17: after an account reload that returned a non-empty list, the keys of
\* the account index are exactly the display names of the returned accounts;
\* after a subscription reload that returned a non-empty list, the keys of the
\* subscription index are exactly the ids of the returned subscriptions.
C17_IndexesRebuiltOnReload ==
    [][\A t \in BagToSet(tasks) :
          /\ \A accounts \in AccountLists \ {<<>>} :
                GetAllAccountsReturn(t, accounts) =>
                    KeysOf(accountsMap') = {accounts[i].displayName : i \in 1..Len(accounts)}
          /\ \A subscriptions \in SubscriptionLists(t.account) \ {None, Some(<<>>)} :
                GetSubscriptionsReturn(t, subscriptions) =>
                    KeysOf(subscriptionsMap') =
                        {The(subscriptions)[i].id : i \in 1..Len(The(subscriptions))}]_vars

\* ---------------------------------------------------------------- C18
\* C18: in every reachable state the server name in the store is not the
\* 'No servers found' entry's display name.
C18_SentinelNeverStored == model.azureServerName # Some("No servers found")

\* ---------------------------------------------------------------- C19
\* C19: every step that changes the server name or the resource group of the
\* store sets both, the name to the display name and the group to the part
\* extracted from the identity of one entry of the server field.
C19_ResourceGroupSetWithServer ==
    [][(\/ model'.azureResouceGroup # model.azureResouceGroup
        \/ model'.azureServerName # model.azureServerName)
       => \E i \in 1..Len(serverGroupDropdown'.values) :
             /\ Value(serverGroupDropdown') = Some(serverGroupDropdown'.values[i])
             /\ model'.azureServerName = Some(serverGroupDropdown'.values[i].displayName)
             /\ model'.azureResouceGroup =
                    Some(StripFromProviders(StripToResourceGroups(serverGroupDropdown'.values[i].name)))]_vars

\* the user has selected srv1, the second entry of the server field
C19_Witness ==
    /\ serverGroupDropdown.sel = 2
    /\ Value(serverGroupDropdown) = Some(ServerCategoryValue(Srv1))
    /\ model.azureServerName = Some("srv1")
    /\ model.azureResouceGroup = Some(<<"RG1">>)

\* ---------------------------------------------------------------- C20
\* the store and the two indexes as the constructor leaves them
StoreEmpty ==
    /\ model.azureAccount = None
    /\ model.azureSubscription = None
    /\ model.securityToken = None
    /\ model.azureServerName = None
    /\ model.azureResouceGroup = None
    /\ accountsMap = {}
    /\ subscriptionsMap = {}

\* C20: the store and the indexes are empty initially, and onEnter, onLeave
\* and every navigation attempt (forward, running the validator, or backward)
\* leave the store and both indexes unchanged.
C20_NavigationLeavesStore ==
    /\ StoreEmpty
    /\ [][(\/ OnEnter
           \/ OnLeave
           \/ \E lastPage \in Pages, newPage \in Pages : NavigationAttempt(lastPage, newPage))
          => UNCHANGED <<model, accountsMap, subscriptionsMap>>]_vars

\* the page was left after a forward attempt ran the validator, and the
\* store still holds account, subscription, token, server and resource group
C20_Witness ==
    /\ validator = "onLeave"
    /\ liveValidation
    /\ model.azureAccount = Some(Acc2)
    /\ model.azureSubscription = Some(Str_S3)
    /\ model.securityToken # None
    /\ model.azureServerName = Some("srv3")
    /\ model.azureResouceGroup = Some(<<"RG3">>)

\* ---------------------------------------------------------------- C22
\* the subscription with an id
SubscriptionOf(id) == CHOOSE x \in {Sub1, Sub2, Sub3} : x.id = id

\* C22: every step that issues the server-list request issues it with a
\* token that was obtained for the tenant of the subscription named in the
\* URL.
C22_TokenMatchesRequestedSubscription ==
    [][ServerRequestIssued =>
          \A t \in IssuedServerRequests :
             /\ t.sub # None
             /\ t.token # None
             /\ The(t.token).tenant = Some(SubscriptionOf(The(t.sub)).tenant)]_vars

\* ---------------------------------------------------------------- C23
\* C23: a step that issues getSubscriptions issues it for the account the
\* store holds, which is the one the account field shows; and the step that
\* requests the security token after the subscriptions arrived requests it
\* for the account whose subscriptions were fetched.
C23_OneAccountThroughoutReload ==
    [][/\ \A t \in IssuedSubscriptionFetches :
             /\ Value(accountsDropdown') # None
             /\ t.account = model'.azureAccount
             /\ The(t.account).displayName = The(Value(accountsDropdown')).name
       /\ \A t \in BagToSet(tasks) :
             \A subscriptions \in SubscriptionLists(t.account) \ {None, Some(<<>>)} :
                GetSubscriptionsReturn(t, subscriptions) =>
                   \A u \in BagToSet(tasks') :
                      (u.pc = "getAccountSecurityToken" /\ CopiesIn(u, tasks') > CopiesIn(u, tasks))
                         => u.account = t.account]_vars

\* ---------------------------------------------------------------- C24
\* C24: in every state, while a fetch of the subscription field is in flight
\* the subscription loader shows loading, and while a server-list request is
\* in flight the server loader shows loading.
C24_LoadingWhileFetchInFlight ==
    /\ ~SubscriptionReloadsDone => loading.subscription
    /\ ~ServerReloadsDone => loading.serverGroup

\* ---------------------------------------------------------------- C25
\* C25: while the validator of onLeave is registered every navigation
\* attempt, forward or backward, is allowed and leaves liveValidation and the
\* displayed message as they were, and only onEnter and onLeave change the
\* registered validator.
C25_ValidatorOnlyWhileEntered ==
    [][/\ \A lastPage \in Pages, newPage \in Pages :
             (validator = "onLeave" /\ NavigationAttempt(lastPage, newPage)) =>
                 /\ navOutcome' = "allowed"
                 /\ UNCHANGED <<liveValidation, errorMessage>>
       /\ validator' # validator => (OnEnter \/ OnLeave)]_vars

\* after onLeave a navigation was allowed although the server field shows
\* 'No servers found' and the validator of an earlier visit had blocked
C25_Witness ==
    /\ validator = "onLeave"
    /\ navOutcome = "allowed"
    /\ liveValidation
    /\ errorMessage = NoServersError
    /\ formValidation(serverGroupDropdown).message # ""

\* ---------------------------------------------------------------- C26
\* C26: in every state each of the Reset password, Delete and Refresh buttons
\* is disabled exactly while its click handler has not ended, and a step in
\* which a handler ends on a rejection shows that handler's error message
\* and leaves its button enabled.
C26_DisabledWhileHandlerRuns ==
    /\ [](\A b \in PostgresButtons : buttons[b] <=> (handlers[b] = "idle"))
    /\ [][/\ PromptAndConfirmPasswordReturn("rejected") =>
                (notifications' = Append(notifications, "passwordResetFailed")
                    /\ buttons'.resetPassword)
          /\ (\/ PromptForResourceDeletionReturn("rejected")
              \/ DeleteReturn("rejected")
              \/ RefreshTreeNodeReturn("rejected")) =>
                (notifications' = Append(notifications, "resourceDeletionFailed")
                    /\ buttons'.delete)
          /\ (RefreshHandlerResumes /\ RefreshFailed) =>
                (notifications' = Append(notifications, "refreshFailed")
                    /\ buttons'.refresh)]_vars

\* the Refresh and the Delete handler have both ended on an error and all
\* three buttons are enabled
C26_Witness ==
    /\ RunningHandlers = {}
    /\ \A b \in PostgresButtons : buttons[b]
    /\ "refreshFailed" \in {notifications[i] : i \in 1..Len(notifications)}
    /\ "resourceDeletionFailed" \in {notifications[i] : i \in 1..Len(notifications)}

\* ---------------------------------------------------------------- C27
\* C27: whenever the Refresh handler has set the three loading indicators and
\* awaits the refresh of both models, each of the properties, Kibana and
\* Grafana indicators is eventually not loading.
C27_LoadersEventuallyReady ==
    /\ (handlers.refresh = "Promise.all") ~> ~loaders.properties
    /\ (handlers.refresh = "Promise.all") ~> ~loaders.kibana
    /\ (handlers.refresh = "Promise.all") ~> ~loaders.grafana

\* ---------------------------------------------------------------- C28
\* C28: the delete operation is called only by the step that receives the
\* user's confirmation, refreshTreeNode only by the step in which the delete
\* resolved, and 'resource deleted' is shown only by the step in which
\* refreshTreeNode resolved; when the user declines the handler ends without
\* a delete and without a message; when the delete or the tree refresh
\* rejects, the deletion-failed message and not 'resource deleted' is shown.
C28_DeleteOnlyAfterConfirmation ==
    [][/\ (handlers'.delete = "delete" /\ handlers.delete # "delete")
             => PromptForResourceDeletionReturn("true")
       /\ (handlers'.delete = "refreshTreeNode" /\ handlers.delete # "refreshTreeNode")
             => DeleteReturn("resolved")
       /\ (notifications' = Append(notifications, "resourceDeleted"))
             => RefreshTreeNodeReturn("resolved")
       /\ PromptForResourceDeletionReturn("false")
             => (handlers'.delete = "idle" /\ UNCHANGED notifications)
       /\ (DeleteReturn("rejected") \/ RefreshTreeNodeReturn("rejected"))
             => (/\ notifications' = Append(notifications, "resourceDeletionFailed")
                 /\ handlers'.delete = "idle")]_vars

\* the user confirmed, the delete and the tree refresh succeeded, and the
\* 'resource deleted' message is the only one shown
C28_Witness ==
    /\ handlers.delete = "idle"
    /\ buttons.delete
    /\ notifications = <<"resourceDeleted">>

\* ---------------------------------------------------------------- C21
\* the kinds of member whose typeof is 'object'
ObjectKinds == {"object", "array", "null"}

\* the content is a JSON document whose metadata and cells have type object
\* and whose nbformat and nbformat_minor have type number
LooksLikeNotebook(content) ==
    \E a \in MemberAssignments :
        /\ content = ObjectTokens(a)
        /\ a["metadata"] \in ObjectKinds
        /\ a["cells"] \in ObjectKinds
        /\ a["nbformat"] = "number"
        /\ a["nbformat_minor"] = "number"

\* C21: a call of isNotebookContent never throws; it returns true when the
\* content is a JSON document whose metadata and cells have type object and
\* whose nbformat and nbformat_minor have type number, and false for every
\* other content, text that is not JSON and JSON that is not an object included.
C21_IsNotebookContentTotal ==
    isNotebook # "none" =>
        /\ isNotebook \in {"true", "false"}
        /\ (isNotebook = "true") <=> LooksLikeNotebook(documentContent)

\* the call has returned false for the content 'null', which parses as JSON
\* and makes the read of doc.metadata throw
C21_Witness ==
    /\ documentContent = <<"null">>
    /\ isNotebook = "false"

====
